---- MODULE Spec2Model ----
(***************************************************************************)
(* The command dispatch layer of spotify-tui: the render loop of main()    *)
(* (src/main.rs), the command queue, the dispatcher thread start_tokio()   *)
(* and Network::handle_network_event (src/network.rs), and the shared App  *)
(* behind Arc<Mutex<App>>.                                                 *)
(*                                                                         *)
(* Every `.await` of the dispatcher is a step boundary: a remote call is   *)
(* one "..._wait" position, the answer arrives in a "...Return" action,    *)
(* `app.lock().await` is the action NetLock, and the statements executed   *)
(* while the guard lives are a "...Write" action that ends by dropping it. *)
(***************************************************************************)
EXTENDS Integers, Sequences, FiniteSets, TLC

VARIABLES
    now,                    \* Instant::now(), in seconds
    token_expiry,           \* main(): the local `token_expiry` of line 207
    is_first_render,        \* main(): line 223
    renderPc,               \* position of the render loop
    renderHolds,            \* the render loop owns the MutexGuard of line 226
    netHolds,               \* the dispatcher owns a MutexGuard
    queue,                  \* the mpsc channel sync_io_tx -> sync_io_rx
    app,                    \* the App behind the mutex
    device_id,              \* app.client_config.device_id
    scenario,               \* the surroundings of this run, see Scenarios
    spotify,                \* Network.spotify: which credential it was built from
    spotify_token_expiry,   \* Network.spotify_token_expiry
    stdout,                 \* lines the dispatcher has printed with println!
    netPc,                  \* position of the dispatcher
    io_event,               \* the command handle_network_event is handling
    local,                  \* the locals of the running handler
    enqueued,               \* number of commands sent so far
    handled                 \* number of commands whose handler has returned

vars == <<now, token_expiry, is_first_render, renderPc, renderHolds, netHolds,
          queue, app, device_id, scenario, spotify, spotify_token_expiry, stdout,
          netPc, io_event, local, enqueued, handled>>

renderVars == <<token_expiry, is_first_render, renderPc, renderHolds>>
netVars == <<spotify, spotify_token_expiry, stdout, netPc, io_event, local, netHolds, handled>>

---------------------------------------------------------------------------
(* Bounds of the model *)

MaxCmds == 4        \* commands sent in one run
MaxTime == 1        \* the clock stops here
MaxStack == 2       \* depth of the navigation stack the key handlers build

(* Program constant *)
Margin == 10        \* "Set 10 seconds early"

---------------------------------------------------------------------------
(* Values *)

None == <<>>
Some(x) == <<x>>
IsSome(o) == o # None
Unwrap(o) == o[1]

\* token_info.expires_in as the token endpoint reports it
ExpiresIn == {Margin, Margin + 1}

TrackIds == {1, 2}
\* a FullTrack is its `id: Option<String>`
FullTracks == {None} \cup {Some(t) : t \in TrackIds}

\* track lists a search or the saved-track library returns
TrackLists == { <<>>, <<Some(1)>>, <<Some(1), Some(2)>>, <<None, Some(2)>> }

\* the items of a Page<PlaylistTrack>: each `track` is an Option<FullTrack>
PlaylistPages ==
    { <<>>, <<Some(Some(1))>>, <<Some(Some(2)), Some(None)>>, <<Some(Some(1)), None>> }

\* a FullPlayingContext is its `item: Option<FullTrack>`
PlayingContexts == {None} \cup {Some(t) : t \in FullTracks}

\* sizes of the playlist and device lists the remote returns
ListSizes == 0..2

SearchTerms == {1, 2}

\* answers of current_user_saved_tracks_contains to n ids: one per id, or one short
AnswerVectors(n) == UNION { [1..k -> BOOLEAN] : k \in {n - 1, n} \cap Nat }

Home == [id |-> "Home", active_block |-> "Empty"]

---------------------------------------------------------------------------
(* Commands *)

IoEvent(kind) == [kind |-> kind, term |-> 0, tracks |-> <<>>, navigate |-> FALSE, n |-> 0]

GetCurrentPlayback == IoEvent("GetCurrentPlayback")
RefreshAuthentication == IoEvent("RefreshAuthentication")
GetPlaylists == IoEvent("GetPlaylists")
GetDevices == IoEvent("GetDevices")
GetSearchResults(term) == [IoEvent("GetSearchResults") EXCEPT !.term = term]
SetTracksToTable(tracks) == [IoEvent("SetTracksToTable") EXCEPT !.tracks = tracks]
GetMadeForYouPlaylistTracks == IoEvent("GetMadeForYouPlaylistTracks")
GetPlaylistTracks == IoEvent("GetPlaylistTracks")
GetCurrentSavedTracks(nav) == [IoEvent("GetCurrentSavedTracks") EXCEPT !.navigate = nav]

NoEvent == IoEvent("None")

\* the commands a key or tick handler can send
UserCmds ==
    {GetCurrentPlayback, GetPlaylists, GetDevices, GetMadeForYouPlaylistTracks,
     GetPlaylistTracks}
    \cup {GetSearchResults(t) : t \in SearchTerms}
    \cup {GetCurrentSavedTracks(b) : b \in BOOLEAN}

\* App::dispatch: io_tx.send(action); the k-th command sent carries n = k
dispatch(q, cmds, sent) ==
    q \o [k \in 1..Len(cmds) |-> [cmds[k] EXCEPT !.n = sent + k]]

---------------------------------------------------------------------------
(* get_spotify: the expiry of a credential obtained at `t` *)

get_spotify(t, expires_in) == t + expires_in - Margin

---------------------------------------------------------------------------
(* App *)

NoSearchResults == [tracks |-> None, artists |-> None, albums |-> None, playlists |-> None]

AppNew ==
    [ playlists |-> None,
      selected_playlist_index |-> None,
      user |-> None,
      devices |-> None,
      selected_device_index |-> None,
      current_playback_context |-> None,
      instant_since_last_current_playback_poll |-> 0,
      liked_song_ids_set |-> {},
      track_table |-> [tracks |-> <<>>, context |-> None],
      playlist_tracks |-> None,
      made_for_you_tracks |-> None,
      search_results |-> NoSearchResults,
      saved_tracks |-> <<>>,
      navigation_stack |-> <<Home>>,
      api_error |-> None ]

get_current_route(a) == a.navigation_stack[Len(a.navigation_stack)]

push_navigation_stack(a, id, block) ==
    [a EXCEPT !.navigation_stack = Append(@, [id |-> id, active_block |-> block])]

\* pop_navigation_stack: <<popped entry or None, the App afterwards>>
pop_navigation_stack(a) ==
    IF Len(a.navigation_stack) = 1
    THEN <<None, a>>
    ELSE <<Some(get_current_route(a)),
           [a EXCEPT !.navigation_stack = SubSeq(@, 1, Len(@) - 1)]>>

handle_error(a, e) == [a EXCEPT !.api_error = Some(e)]

NoLocal == [ids |-> <<>>, is_saved_vec |-> <<>>, i |-> 0, tracks |-> <<>>, result |-> None]

---------------------------------------------------------------------------
(* The mutex: `app.lock().await` returns once nobody owns a guard *)

\* a lock that does not see the render loop's guard
LockFreeForNet == ~netHolds

LockFree == ~renderHolds /\ ~netHolds

\* the positions at which a remote call is outstanding
RemoteWait ==
    {"refresh_wait", "playlists_wait", "user_wait", "devices_wait", "playback_wait",
     "contains_wait", "page_wait", "search_wait", "saved_wait"}

\* the routes a key handler opens
UserEntries ==
    { [id |-> "Search", active_block |-> "Input"],
      [id |-> "Search", active_block |-> "SearchResultBlock"] }

\* The runs explored. A scenario fixes the surroundings of one run: the remote
\* calls that can succeed in it, the commands its key and tick handlers send, the
\* routes its keys open, and the second at which its clock stops.
Scenario(online, keys, opens, seconds) ==
    [online |-> online, keys |-> keys, opens |-> opens, seconds |-> seconds]

Scenarios ==
    { Scenario({}, UserCmds, {}, 0),
      Scenario({"refresh_wait"}, {}, {}, MaxTime),
      Scenario({"playlists_wait", "user_wait", "devices_wait"},
               {GetPlaylists, GetDevices}, {}, 0),
      Scenario({"playback_wait", "contains_wait"}, {GetCurrentPlayback}, {}, MaxTime),
      Scenario({"page_wait", "contains_wait"},
               {GetPlaylistTracks, GetMadeForYouPlaylistTracks}, {}, 0),
      Scenario({"search_wait", "contains_wait"},
               {GetSearchResults(t) : t \in SearchTerms}, {}, 0),
      Scenario({"saved_wait", "contains_wait"},
               {GetCurrentSavedTracks(b) : b \in BOOLEAN}, {}, 0),
      Scenario({"devices_wait", "page_wait", "saved_wait"},
               {GetDevices, GetPlaylistTracks, GetCurrentSavedTracks(TRUE)},
               UserEntries, 0) }

Init ==
    /\ now = 0
    /\ \E expires_in \in ExpiresIn : token_expiry = get_spotify(0, expires_in)
    /\ spotify_token_expiry = token_expiry
    /\ spotify = 0
    /\ stdout = 0
    /\ is_first_render = TRUE
    /\ renderPc = "lock"
    /\ renderHolds = FALSE
    /\ netHolds = FALSE
    /\ queue = <<>>
    /\ app = AppNew
    /\ device_id \in {None, Some(1)}
    /\ scenario \in Scenarios
    /\ netPc = "recv"
    /\ io_event = NoEvent
    /\ local = NoLocal
    /\ enqueued = 0
    /\ handled = 0

\* main() has not returned: the process, and with it the dispatcher thread, lives
Running == renderPc # "done"

\* Instant::now() moves on
Clock ==
    /\ Running
    /\ now < scenario.seconds
    /\ now' = now + 1
    /\ UNCHANGED <<renderVars, netVars, queue, app, device_id, scenario, enqueued>>

---------------------------------------------------------------------------
(* The render loop, main() lines 225-351 *)

\* line 226: let mut app = cloned_app.lock().await
RenderLock ==
    /\ renderPc = "lock"
    /\ LockFree
    /\ renderHolds' = TRUE
    /\ renderPc' = "paint"
    /\ UNCHANGED <<now, token_expiry, is_first_render, netVars, queue, app, device_id, scenario, enqueued>>

\* line 297: the render loop compares the clock with its own `token_expiry`
RefreshDue == now > token_expiry

\* lines 227-299: paint, then send RefreshAuthentication when the token is due
RenderPaint ==
    /\ renderPc = "paint"
    /\ renderHolds
    /\ LET cmds == IF RefreshDue THEN <<RefreshAuthentication>> ELSE <<>> IN
        /\ enqueued + Len(cmds) <= MaxCmds
        /\ queue' = dispatch(queue, cmds, enqueued)
        /\ enqueued' = enqueued + Len(cmds)
    /\ renderPc' = "event"
    /\ UNCHANGED <<now, token_expiry, is_first_render, renderHolds, netVars, app, device_id, scenario>>

\* startup commands sent in the other order
StartupCmdsSwapped ==
    <<GetCurrentPlayback, GetPlaylists>>
        \o (IF device_id = None THEN <<GetDevices>> ELSE <<>>)

\* lines 339-350: the commands of the first render
StartupCmds ==
    <<GetPlaylists, GetCurrentPlayback>>
        \o (IF device_id = None THEN <<GetDevices>> ELSE <<>>)

\* the end of an iteration that did not break: lines 337-351, the guard is dropped
EndIteration(a, cmds) ==
    LET all == cmds \o (IF is_first_render THEN StartupCmds ELSE <<>>) IN
    /\ enqueued + Len(all) <= MaxCmds
    /\ app' = a
    /\ queue' = dispatch(queue, all, enqueued)
    /\ enqueued' = enqueued + Len(all)
    /\ is_first_render' = FALSE
    /\ renderHolds' = FALSE
    /\ renderPc' = "lock"

\* `break`: the loop ends, the guard is dropped, main() returns
Break(a) ==
    /\ app' = a
    /\ renderHolds' = FALSE
    /\ renderPc' = "done"
    /\ UNCHANGED <<queue, enqueued, is_first_render>>

\* lines 303-305: Key::Ctrl('c')
RenderCtrlC ==
    /\ renderPc = "event"
    /\ renderHolds
    /\ Break(app)
    /\ UNCHANGED <<now, token_expiry, netVars, device_id, scenario>>

\* a back key that reports underflow whatever it popped
back_key_quits(a) == <<None, pop_navigation_stack(a)[2]>>

\* a back key that takes an underflow for an ordinary pop
back_key_no_underflow(a) ==
    LET first == pop_navigation_stack(a) IN
    IF IsSome(first[1]) /\ Unwrap(first[1]).id = "Search"
    THEN pop_navigation_stack(first[2])
    ELSE <<Some(get_current_route(a)), first[2]>>

\* lines 317-323: pop, and pop once more when the popped route is Search
back_key(a) ==
    LET first == pop_navigation_stack(a) IN
    IF IsSome(first[1]) /\ Unwrap(first[1]).id = "Search"
    THEN pop_navigation_stack(first[2])
    ELSE first

\* lines 313-327: the back key outside the input block
RenderBack ==
    /\ renderPc = "event"
    /\ renderHolds
    /\ get_current_route(app).active_block # "Input"
    /\ LET r == back_key(app) IN
        IF r[1] = None THEN Break(r[2]) ELSE EndIteration(r[2], <<>>)
    /\ UNCHANGED <<now, token_expiry, netVars, device_id, scenario>>

\* lines 311-312 and 328-330: handlers::input_handler and handlers::handle_app
\* do nothing, send one command, or open a route
RenderKey ==
    /\ renderPc = "event"
    /\ renderHolds
    /\ \/ EndIteration(app, <<>>)
       \/ \E c \in scenario.keys : EndIteration(app, <<c>>)
       \/ \E e \in scenario.opens :
            /\ Len(app.navigation_stack) < MaxStack
            /\ EndIteration(push_navigation_stack(app, e.id, e.active_block), <<>>)
    /\ UNCHANGED <<now, token_expiry, netVars, device_id, scenario>>

\* lines 332-334: app.update_on_tick() polls the playback or does nothing
RenderTick ==
    /\ renderPc = "event"
    /\ renderHolds
    /\ \/ EndIteration(app, <<>>)
       \/ GetCurrentPlayback \in scenario.keys /\ EndIteration(app, <<GetCurrentPlayback>>)
    /\ UNCHANGED <<now, token_expiry, netVars, device_id, scenario>>

---------------------------------------------------------------------------
(* The dispatcher: start_tokio() and Network::handle_network_event *)

\* the positions at which the handler awaits app.lock() and then owns the guard
LockPoints ==
    {"playlists_ok", "playlists_err", "user_ok", "user_err", "devices_ok",
     "playback_ok", "contains_merge", "contains_err", "table", "page_ok",
     "search_ok", "search_err", "saved_ok", "saved_err"}

\* tracks.into_iter().filter_map(|item| item.id), lines 257-261
TrackIdsOf(tracks) ==
    LET with_id == SelectSeq(tracks, IsSome) IN
    [k \in 1..Len(with_id) |-> Unwrap(with_id[k])]

\* the first await of each handler, lines 83-139
FirstPc(kind) ==
    CASE kind = "RefreshAuthentication" -> "refresh_wait"
      [] kind = "GetPlaylists" -> "playlists_wait"
      [] kind = "GetDevices" -> "devices_wait"
      [] kind = "GetCurrentPlayback" -> "playback_wait"
      [] kind = "SetTracksToTable" -> "contains_wait"
      [] kind = "GetSearchResults" -> "search_wait"
      [] kind = "GetMadeForYouPlaylistTracks" -> "page_wait"
      [] kind = "GetPlaylistTracks" -> "page_wait"
      [] kind = "GetCurrentSavedTracks" -> "saved_wait"

\* the locals of set_tracks_to_table(tracks) as it calls the membership check
TableLocals(loc, tracks) == [loc EXCEPT !.tracks = tracks, !.ids = TrackIdsOf(tracks)]

\* a channel that hands out the newest command first
NextCommandNewest(q) == q[Len(q)]

\* io_rx.recv(): the command the dispatcher takes out of the channel
NextCommand(q) == Head(q)
RestOfQueue(q) == Tail(q)

\* main.rs lines 371-373: take the next command and start its handler
Recv ==
    /\ Running
    /\ netPc = "recv"
    /\ queue # <<>>
    /\ io_event' = NextCommand(queue)
    /\ queue' = RestOfQueue(queue)
    /\ netPc' = FirstPc(io_event'.kind)
    /\ local' = IF io_event'.kind = "SetTracksToTable"
                THEN TableLocals(NoLocal, io_event'.tracks)
                ELSE NoLocal
    /\ UNCHANGED <<now, renderVars, app, device_id, scenario, spotify, spotify_token_expiry, stdout,
                   netHolds, handled, enqueued>>

\* app.lock().await in the dispatcher
NetLock ==
    /\ Running
    /\ netPc \in LockPoints
    /\ LockFree
    /\ netHolds' = TRUE
    /\ UNCHANGED <<now, renderVars, queue, app, device_id, scenario, spotify, spotify_token_expiry, stdout,
                   netPc, io_event, local, handled, enqueued>>

\* the outstanding remote call can return Ok
Answers == netPc \in scenario.online

\* the handler goes on at `pc`; at "recv" handle_network_event has returned
Goto(pc, loc) ==
    /\ netPc' = pc
    /\ IF pc = "recv"
       THEN handled' = handled + 1 /\ io_event' = NoEvent /\ local' = NoLocal
       ELSE handled' = handled /\ io_event' = io_event /\ local' = loc

\* a step of the dispatcher that owns no guard and writes nothing shared
NoWrite == UNCHANGED <<now, renderVars, queue, app, device_id, scenario, netHolds, enqueued>>

\* a guard that outlives its block
UnlockNever == netHolds' = TRUE

\* the guard is dropped at the end of the block that took it
Unlock == netHolds' = FALSE

\* a failed refresh that forgets the credential it had
refresh_forgets(new_token_info, s, e, out) ==
    IF IsSome(new_token_info)
    THEN <<s + 1, get_spotify(now, Unwrap(new_token_info)), out>>
    ELSE <<s + 1, now, out + 1>>

\* lines 85-92: the two arms of `if let Some(new_token_info)`, as
\* <<self.spotify, self.spotify_token_expiry, the lines printed>>
refresh(new_token_info, s, e, out) ==
    IF IsSome(new_token_info)
    THEN <<s + 1, get_spotify(now, Unwrap(new_token_info)), out>>
    ELSE <<s, e, out + 1>>

\* what get_token(&mut self.oauth) can return
TokenInfos == {None} \cup {Some(expires_in) : expires_in \in ExpiresIn}

\* lines 84-93
RefreshReturn ==
    /\ Running
    /\ netPc = "refresh_wait"
    /\ \E new_token_info \in TokenInfos :
        LET r == refresh(new_token_info, spotify, spotify_token_expiry, stdout) IN
        /\ IsSome(new_token_info) => Answers
        /\ spotify' = r[1]
        /\ spotify_token_expiry' = r[2]
        /\ stdout' = r[3]
    /\ Goto("recv", local)
    /\ NoWrite

\* where the handler goes after an Err arm, and after the arm that follows an Ok
AfterErr(pc) ==
    CASE pc = "playlists_err" -> "user_wait"
      [] pc = "user_err" -> "recv"
      [] pc = "contains_err" -> IF io_event.kind = "GetCurrentPlayback" THEN "playback_ok" ELSE "table"
      [] pc = "search_err" -> "recv"
      [] pc = "saved_err" -> "recv"

ErrPoints == {"playlists_err", "user_err", "contains_err", "search_err", "saved_err"}

\* an Err arm that drops the error
ErrArmSilent(pc, a) == a

\* the statement of an Err(e) arm: app.handle_error(e), the error named by its arm
ErrArm(pc, a) == handle_error(a, pc)

\* the Err(e) arms: app.handle_error(e) under the lock
ErrorWrite ==
    /\ Running
    /\ netPc \in ErrPoints
    /\ netHolds
    /\ app' = ErrArm(netPc, app)
    /\ Unlock
    /\ Goto(AfterErr(netPc), local)
    /\ UNCHANGED <<now, renderVars, queue, device_id, scenario, spotify, spotify_token_expiry, stdout, enqueued>>

\* lines 95-100: current_user_playlists(...).await
PlaylistsReturn ==
    /\ Running
    /\ netPc = "playlists_wait"
    /\ \/ \E p \in ListSizes :
            Answers /\ Goto("playlists_ok", [local EXCEPT !.result = Some(p)])
       \/ Goto("playlists_err", local)
    /\ UNCHANGED <<spotify, spotify_token_expiry, stdout>>
    /\ NoWrite

\* lines 101-106
PlaylistsWrite ==
    /\ Running
    /\ netPc = "playlists_ok"
    /\ netHolds
    /\ app' = [app EXCEPT !.playlists = local.result,
                          !.selected_playlist_index = Some(0)]
    /\ Unlock
    /\ Goto("user_wait", NoLocal)
    /\ UNCHANGED <<now, renderVars, queue, device_id, scenario, spotify, spotify_token_expiry, stdout, enqueued>>

\* line 143: current_user().await
UserReturn ==
    /\ Running
    /\ netPc = "user_wait"
    /\ \/ Answers /\ Goto("user_ok", local)
       \/ Goto("user_err", local)
    /\ UNCHANGED <<spotify, spotify_token_expiry, stdout>>
    /\ NoWrite

\* lines 144-147
UserWrite ==
    /\ Running
    /\ netPc = "user_ok"
    /\ netHolds
    /\ app' = [app EXCEPT !.user = Some(1)]
    /\ Unlock
    /\ Goto("recv", local)
    /\ UNCHANGED <<now, renderVars, queue, device_id, scenario, spotify, spotify_token_expiry, stdout, enqueued>>

\* line 156: device().await; an Err is dropped by `if let Ok`
DevicesReturn ==
    /\ Running
    /\ netPc = "devices_wait"
    /\ \/ \E d \in ListSizes :
            Answers /\ Goto("devices_ok", [local EXCEPT !.result = Some(d)])
       \/ Goto("recv", local)
    /\ UNCHANGED <<spotify, spotify_token_expiry, stdout>>
    /\ NoWrite

\* a get_devices that opens the device screen only when there is a device
get_devices_push_if_some(a, devices) ==
    IF devices # 0
    THEN [push_navigation_stack(a, "SelectedDevice", "SelectDevice")
            EXCEPT !.devices = Some(devices), !.selected_device_index = Some(0)]
    ELSE a

\* lines 157-163
get_devices(a, devices) ==
    LET pushed == push_navigation_stack(a, "SelectedDevice", "SelectDevice") IN
    IF devices # 0
    THEN [pushed EXCEPT !.devices = Some(devices), !.selected_device_index = Some(0)]
    ELSE pushed

DevicesWrite ==
    /\ Running
    /\ netPc = "devices_ok"
    /\ netHolds
    /\ app' = get_devices(app, Unwrap(local.result))
    /\ Unlock
    /\ Goto("recv", local)
    /\ UNCHANGED <<now, renderVars, queue, device_id, scenario, spotify, spotify_token_expiry, stdout, enqueued>>

---------------------------------------------------------------------------
(* current_user_saved_tracks_contains, lines 184-206 *)

\* the positions of `ids` that have an answer: is_saved_vec.get(i) is Some
Answered(loc) ==
    {k \in 1..Len(loc.ids) : k <= Len(loc.is_saved_vec)}

\* where the caller goes on: get_current_playback line 177, set_tracks_to_table line 265
AfterContains == IF io_event.kind = "GetCurrentPlayback" THEN "playback_ok" ELSE "table"

\* the loop of line 187 at position k: lock for it, or leave the loop
ContainsLoop(loc, k) ==
    IF k \in Answered(loc)
    THEN Goto("contains_merge", [loc EXCEPT !.i = k])
    ELSE Goto(AfterContains, [loc EXCEPT !.i = 0])

\* line 185: the remote membership check returns
ContainsReturn ==
    /\ Running
    /\ netPc = "contains_wait"
    /\ \/ \E v \in AnswerVectors(Len(local.ids)) :
            Answers /\ ContainsLoop([local EXCEPT !.is_saved_vec = v], 1)
       \/ Goto("contains_err", local)
    /\ UNCHANGED <<spotify, spotify_token_expiry, stdout>>
    /\ NoWrite

\* an answer that is never merged
merge_liked_dropped(set, id, is_liked) == set

\* an answer that replaces the liked set
merge_liked_replace(set, id, is_liked) == IF is_liked THEN {id} ELSE {}

\* lines 190-197: one answer merged into the liked set
merge_liked(set, id, is_liked) ==
    IF is_liked THEN set \cup {id} ELSE set \ {id}

\* lines 189-198: one iteration that has an answer
ContainsMerge ==
    /\ Running
    /\ netPc = "contains_merge"
    /\ netHolds
    /\ app' = [app EXCEPT !.liked_song_ids_set =
                    merge_liked(@, local.ids[local.i], local.is_saved_vec[local.i])]
    /\ Unlock
    /\ ContainsLoop(local, local.i + 1)
    /\ UNCHANGED <<now, renderVars, queue, device_id, scenario, spotify, spotify_token_expiry, stdout, enqueued>>

---------------------------------------------------------------------------
(* set_tracks_to_table, lines 254-267 *)

\* where the caller of set_tracks_to_table goes on
AfterTable ==
    CASE io_event.kind = "SetTracksToTable" -> "recv"
      [] io_event.kind = "GetSearchResults" -> "search_ok"
      [] OTHER -> "page_ok"

\* lines 265-266
TableWrite ==
    /\ Running
    /\ netPc = "table"
    /\ netHolds
    /\ app' = [app EXCEPT !.track_table.tracks = local.tracks]
    /\ Unlock
    /\ Goto(AfterTable, local)
    /\ UNCHANGED <<now, renderVars, queue, device_id, scenario, spotify, spotify_token_expiry, stdout, enqueued>>

---------------------------------------------------------------------------
(* get_current_playback, lines 167-182 *)

\* line 168: current_playback(None).await; Err and Ok(None) end the handler
PlaybackReturn ==
    /\ Running
    /\ netPc = "playback_wait"
    /\ \/ \E c \in PlayingContexts :
            LET loc == [local EXCEPT !.result = Some(c)] IN
            /\ Answers
            /\ IF IsSome(c) /\ IsSome(Unwrap(c))
               THEN Goto("contains_wait", [loc EXCEPT !.ids = <<Unwrap(Unwrap(c))>>])
               ELSE Goto("playback_ok", loc)
       \/ Goto("recv", local)
    /\ UNCHANGED <<spotify, spotify_token_expiry, stdout>>
    /\ NoWrite

\* lines 177-179
PlaybackWrite ==
    /\ Running
    /\ netPc = "playback_ok"
    /\ netHolds
    /\ app' = [app EXCEPT !.current_playback_context = local.result,
                          !.instant_since_last_current_playback_poll = now]
    /\ Unlock
    /\ Goto("recv", local)
    /\ UNCHANGED <<now, renderVars, queue, device_id, scenario, spotify, spotify_token_expiry, stdout, enqueued>>

---------------------------------------------------------------------------
(* get_playlist_tracks and get_made_for_you_playlist_tracks, lines 208-296 *)

\* line 248: item.track.unwrap() panics on an item that has no track
UnwrapPanics(page) == \E k \in 1..Len(page) : page[k] = None

\* lines 244-249
PageTracks(page) == [k \in 1..Len(page) |-> Unwrap(page[k])]

\* lines 214-227 and 275-288: user_playlist_tracks(...).await, then
\* set_playlist_tracks_to_table; an Err is dropped by `if let Ok`
PageReturn ==
    /\ Running
    /\ netPc = "page_wait"
    /\ \/ \E page \in PlaylistPages :
            /\ Answers
            /\ IF UnwrapPanics(page)
               THEN Goto("panicked", [local EXCEPT !.result = Some(page)])
               ELSE Goto("contains_wait",
                         TableLocals([local EXCEPT !.result = Some(page)], PageTracks(page)))
       \/ Goto("recv", local)
    /\ UNCHANGED <<spotify, spotify_token_expiry, stdout>>
    /\ NoWrite

\* a track table that takes the place of the route on top
push_track_table_replace(a) ==
    IF get_current_route(a).id # "TrackTable"
    THEN [a EXCEPT !.navigation_stack[Len(a.navigation_stack)] =
                [id |-> "TrackTable", active_block |-> "TrackTable"]]
    ELSE a

\* lines 231-233 and 292-294
push_track_table(a) ==
    IF get_current_route(a).id # "TrackTable"
    THEN push_navigation_stack(a, "TrackTable", "TrackTable")
    ELSE a

\* lines 229-233 and 290-294
PageWrite ==
    /\ Running
    /\ netPc = "page_ok"
    /\ netHolds
    /\ app' = push_track_table(
                IF io_event.kind = "GetPlaylistTracks"
                THEN [app EXCEPT !.playlist_tracks = local.result]
                ELSE [app EXCEPT !.made_for_you_tracks = local.result])
    /\ Unlock
    /\ Goto("recv", local)
    /\ UNCHANGED <<now, renderVars, queue, device_id, scenario, spotify, spotify_token_expiry, stdout, enqueued>>

---------------------------------------------------------------------------
(* get_search_results, lines 298-336 *)

Categories == <<"tracks", "artists", "albums", "playlists">>

\* what one search stores in each field of app.search_results: the tracks result
\* is the term and its items, the other results are known by their term
SearchResult(category, term, items) ==
    IF category = "tracks" THEN Some([term |-> term, items |-> items]) ELSE Some(term)

\* line 321: try_join! returns the four results, or the first error of any of them
SearchReturn ==
    /\ Running
    /\ netPc = "search_wait"
    /\ \/ \E items \in TrackLists :
            Answers /\ Goto("contains_wait", TableLocals([local EXCEPT !.result = Some(items)], items))
       \/ \E failed \in 1..Len(Categories) : Goto("search_err", local)
    /\ UNCHANGED <<spotify, spotify_token_expiry, stdout>>
    /\ NoWrite

\* a guard taken anew for each assignment
SearchGuardPerField(k) == TRUE

\* a guard that is kept after the fourth assignment
SearchGuardKept(k) == FALSE

\* line 330: the guard of line 325 lives until the fourth assignment is done
SearchGuardDropped(k) == k = Len(Categories)

\* lines 326-329: the k-th assignment under the guard of line 325
SearchWrite ==
    /\ Running
    /\ netPc = "search_ok"
    /\ netHolds
    /\ LET k == local.i + 1
           c == Categories[k] IN
        /\ app' = [app EXCEPT !.search_results[c] =
                        SearchResult(c, io_event.term, Unwrap(local.result))]
        /\ netHolds' = ~SearchGuardDropped(k)
        /\ Goto(IF k = Len(Categories) THEN "recv" ELSE "search_ok", [local EXCEPT !.i = k])
    /\ UNCHANGED <<now, renderVars, queue, device_id, scenario, spotify, spotify_token_expiry, stdout, enqueued>>

---------------------------------------------------------------------------
(* get_current_user_saved_tracks, lines 338-365 *)

\* line 346: current_user_saved_tracks(...).await
SavedReturn ==
    /\ Running
    /\ netPc = "saved_wait"
    /\ \/ \E tracks \in TrackLists :
            Answers /\ Goto("saved_ok", [local EXCEPT !.result = Some(tracks)])
       \/ Goto("saved_err", local)
    /\ UNCHANGED <<spotify, spotify_token_expiry, stdout>>
    /\ NoWrite

\* App::set_saved_tracks_to_table: the page's tracks go to the dispatcher as a
\* SetTracksToTable command
set_saved_tracks_to_table(tracks) == <<SetTracksToTable(tracks)>>

\* lines 353-358
get_current_user_saved_tracks(a, tracks, should_navigate) ==
    LET added == [a EXCEPT !.saved_tracks = Append(@, tracks),
                           !.track_table.context = Some("SavedTracks")] IN
    IF should_navigate
    THEN push_navigation_stack(added, "TrackTable", "TrackTable")
    ELSE added

\* lines 350-359
SavedWrite ==
    /\ Running
    /\ netPc = "saved_ok"
    /\ netHolds
    /\ LET cmds == set_saved_tracks_to_table(Unwrap(local.result)) IN
        /\ queue' = dispatch(queue, cmds, enqueued)
        /\ enqueued' = enqueued + Len(cmds)
    /\ app' = get_current_user_saved_tracks(app, Unwrap(local.result), io_event.navigate)
    /\ Unlock
    /\ Goto("recv", local)
    /\ UNCHANGED <<now, renderVars, device_id, scenario, spotify, spotify_token_expiry, stdout>>

---------------------------------------------------------------------------

Next ==
    \/ Clock
    \/ RenderLock \/ RenderPaint \/ RenderCtrlC \/ RenderBack \/ RenderKey \/ RenderTick
    \/ Recv \/ NetLock \/ ErrorWrite
    \/ RefreshReturn
    \/ PlaylistsReturn \/ PlaylistsWrite \/ UserReturn \/ UserWrite
    \/ DevicesReturn \/ DevicesWrite
    \/ PlaybackReturn \/ PlaybackWrite
    \/ ContainsReturn \/ ContainsMerge \/ TableWrite
    \/ PageReturn \/ PageWrite
    \/ SearchReturn \/ SearchWrite
    \/ SavedReturn \/ SavedWrite

Spec == Init /\ [][Next]_vars

\* the statements the dispatcher executes while it owns a guard: nothing in them
\* waits, so a guard that was taken is dropped
NetWrite ==
    \/ ErrorWrite \/ PlaylistsWrite \/ UserWrite \/ DevicesWrite \/ ContainsMerge
    \/ TableWrite \/ PlaybackWrite \/ PageWrite \/ SearchWrite \/ SavedWrite

\* The scheduling the liveness of the render loop rests on: the mutex is fair
\* (a waiting render loop gets the lock), painting ends, events.next() returns
\* (a tick arrives if no key does), and the dispatcher runs the statements
\* under its guard. No remote call is required to return.
FairSpec ==
    /\ Spec
    /\ SF_vars(RenderLock)
    /\ WF_vars(RenderPaint)
    /\ WF_vars(RenderTick)
    /\ WF_vars(NetWrite)

---------------------------------------------------------------------------
(* Properties *)

\* C1: the dispatcher takes commands in the order they were sent and handles one
\* at a time: the command in the handler is the first that has not been handled,
\* and the commands still in the channel follow it in the order of sending.
C1_FifoOneAtATime ==
    LET busy == IF netPc = "recv" THEN 0 ELSE 1 IN
    /\ netPc = "recv" => io_event = NoEvent
    /\ netPc # "recv" => io_event.n = handled + 1
    /\ \A k \in 1..Len(queue) : queue[k].n = handled + busy + k

C1_Witness == handled >= 2 /\ netPc \in LockPoints /\ netHolds /\ Len(queue) >= 1

\* C2: while a remote call of the dispatcher is outstanding the dispatcher owns
\* no guard of the lock.
C2_NoLockDuringRemoteCall == netPc \in RemoteWait => ~netHolds

C2_Witness == netPc = "user_wait" /\ app.playlists # None /\ renderHolds

\* C3: the render loop and the dispatcher never own the lock together, and the
\* App changes only in a step taken while one of them owns it.
C3_LockDiscipline ==
    [][ /\ ~(renderHolds' /\ netHolds')
        /\ app' # app => (renderHolds /\ ~netHolds) \/ (netHolds /\ ~renderHolds) ]_vars

C3_Witness ==
    /\ netHolds
    /\ renderPc = "lock"
    /\ app.devices # None
    /\ \E k \in 1..Len(app.navigation_stack) : app.navigation_stack[k].id = "Search"

\* C4: a search of which a sub-query failed writes the error and changes none of
\* the four result collections, the track table and the liked set.
C4_SearchFailure ==
    [][ (netPc \in {"search_wait", "search_err"} /\ netPc' \in {"search_err", "recv"})
        => /\ app'.search_results = app.search_results
           /\ app'.track_table = app.track_table
           /\ app'.liked_song_ids_set = app.liked_song_ids_set
           /\ netPc' = "recv" => app'.api_error = Some("search_err") ]_vars

C4_Witness == netPc = "search_err" /\ netHolds /\ IsSome(app.search_results.tracks)

\* the term of the search a result collection came from, 0 for None
TermOf(category, result) ==
    IF result = None THEN 0
    ELSE IF category = "tracks" THEN Unwrap(result).term
    ELSE Unwrap(result)

\* C5: whenever the render loop looks at the App, the four result collections
\* come from one and the same search (or are all still None).
C5_SearchResultsAtomic ==
    renderHolds =>
        \A c \in {"artists", "albums", "playlists"} :
            TermOf(c, app.search_results[c]) = TermOf("tracks", app.search_results.tracks)

C5_Witness ==
    /\ renderHolds
    /\ netPc = "search_ok"
    /\ io_event.term = 2
    /\ app.search_results.playlists = Some(1)

\* the four result collections the search in the handler will store
NewSearchResults ==
    [c \in {"tracks", "artists", "albums", "playlists"} |->
        SearchResult(c, io_event.term, local.tracks)]

\* the items the track table would hold if the previous search had filled it
PreviousItems ==
    IF app.search_results.tracks = None THEN <<>>
    ELSE Unwrap(app.search_results.tracks).items

\* the search in the handler has put its tracks into the table, or one of its
\* membership answers into the liked set
SearchMerged ==
    /\ io_event.kind = "GetSearchResults"
    /\ \/ /\ netPc = "search_ok"
          /\ app.track_table.tracks = local.tracks
          /\ local.tracks # PreviousItems
       \/ netPc = "contains_merge" /\ local.i > 1
       \/ netPc \in {"table", "search_ok"} /\ Answered(local) # {}

\* C6: the render loop never looks at an App in which the search in the handler
\* has merged its tracks while all four result collections are those of before.
C6_NoPartialMergeVisible ==
    ~( /\ renderHolds
       /\ SearchMerged
       /\ \A c \in DOMAIN NewSearchResults : app.search_results[c] # NewSearchResults[c] )

\* C7: when a remote call that cannot succeed returns, the handler goes to an Err
\* arm, and an Err arm writes its error into the App under the lock.
C7_EveryFailureReported ==
    [][ /\ (netPc \in RemoteWait /\ netPc \notin scenario.online /\ netPc' # netPc)
            => netPc' \in ErrPoints
        /\ (netPc \in ErrPoints /\ netPc' # netPc)
            => netHolds /\ app'.api_error = Some(netPc) ]_vars

\* C8: no command waits in the channel of a dispatcher whose loop has stopped.
C8_ConsumeLoopNeverStops == queue # <<>> => netPc # "panicked"

\* C9: a remote request other than the token refresh is issued only while the
\* clock has not passed the expiry of the dispatcher's credential.
C9_NoRequestAfterExpiry ==
    [][ (netPc' \in RemoteWait \ {"refresh_wait"} /\ netPc' # netPc)
        => now <= spotify_token_expiry ]_vars

\* C10: an iteration of the render loop sends RefreshAuthentication exactly when
\* the clock has passed the expiry of the credential the dispatcher holds.
C10_RefreshExactlyWhenExpired ==
    [][ (renderPc = "paint" /\ renderPc' = "event")
        => (Len(queue') = Len(queue) + 1 <=> now > spotify_token_expiry) ]_vars

\* C11: a RefreshAuthentication whose refresh fails (it prints its line) leaves
\* the dispatcher's client and stored expiry as they were and returns to the
\* loop, where the next command is served with the old credential.
C11_RefreshFailureKeepsCredential ==
    [][ ((netPc = "refresh_wait" /\ netPc' # netPc /\ netPc \notin scenario.online)
            \/ stdout' # stdout)
        => /\ spotify' = spotify
           /\ spotify_token_expiry' = spotify_token_expiry
           /\ stdout' = stdout + 1
           /\ netPc' = "recv" ]_vars

C11_Witness ==
    /\ stdout >= 1
    /\ spotify = 0
    /\ spotify_token_expiry = token_expiry
    /\ netPc = "playback_ok"
    /\ netHolds

\* C12: the initial credential and every successful refresh set the expiry to
\* the completion time + the reported lifetime - 10 seconds, and that expiry is
\* strictly later than the completion time.
C12_ExpiryStrictlyLater ==
    [][ spotify' # spotify
        => /\ \E expires_in \in ExpiresIn :
                spotify_token_expiry' = now + expires_in - 10
           /\ spotify_token_expiry' > now ]_vars

\* C13: right after a successful GetPlaylists has stored its playlists, the
\* playlist cursor is None when the stored collection is empty and an index
\* below its length otherwise.
C13_PlaylistCursorInRange ==
    [][ (netPc = "playlists_ok" /\ netPc' = "user_wait")
        => /\ app'.playlists = local.result
           /\ IF Unwrap(app'.playlists) = 0
              THEN app'.selected_playlist_index = None
              ELSE /\ IsSome(app'.selected_playlist_index)
                   /\ Unwrap(app'.selected_playlist_index) \in 0..(Unwrap(app'.playlists) - 1) ]_vars

\* the number of devices the App holds
DeviceCount(a) == IF a.devices = None THEN 0 ELSE Unwrap(a.devices)

\* C14: after a successful GetDevices the App holds as many devices as the remote
\* returned, and the device cursor is None for an empty list and the first index
\* otherwise.
C14_DevicesReplaced ==
    [][ (netPc = "devices_ok" /\ netPc' = "recv")
        => /\ DeviceCount(app') = Unwrap(local.result)
           /\ app'.selected_device_index =
                (IF Unwrap(local.result) = 0 THEN None ELSE Some(0)) ]_vars

\* C15: a successful GetDevices appends exactly one device-selection entry to
\* the navigation stack, for an empty list as for any other; a failed one leaves
\* the stack as it was.
C15_DevicesPushOnce ==
    [][ /\ (netPc = "devices_ok" /\ netPc' = "recv")
            => app'.navigation_stack =
                Append(app.navigation_stack,
                       [id |-> "SelectedDevice", active_block |-> "SelectDevice"])
        /\ (netPc = "devices_wait" /\ netPc' = "recv")
            => app'.navigation_stack = app.navigation_stack ]_vars

C15_Witness ==
    /\ netPc = "recv"
    /\ handled >= 1
    /\ app.devices = None
    /\ Len(app.navigation_stack) >= 2
    /\ get_current_route(app).id = "SelectedDevice"

\* the playback context has an active track that has an id
HasTrackId(c) == IsSome(c) /\ IsSome(Unwrap(c))

\* C16: GetCurrentPlayback with a context that has no active track issues no
\* membership check, and its write stores the context and the time of the poll
\* and leaves the liked set alone; with an active track that has an id, the
\* membership check is issued for that one id, and its answer is in the liked
\* set before the context is written. Nothing but that write changes the context.
C16_PlaybackContext ==
    [][ /\ (netPc = "playback_wait" /\ netPc' # "playback_wait" /\ IsSome(local'.result))
            => LET c == Unwrap(local'.result) IN
               IF HasTrackId(c)
               THEN netPc' = "contains_wait" /\ local'.ids = <<Unwrap(Unwrap(c))>>
               ELSE netPc' = "playback_ok" /\ local'.ids = <<>>
        /\ (netPc = "playback_ok" /\ netPc' = "recv")
            => /\ app'.current_playback_context = local.result
               /\ app'.instant_since_last_current_playback_poll = now
               /\ app'.liked_song_ids_set = app.liked_song_ids_set
               /\ Answered(local) # {}
                    => (local.ids[1] \in app.liked_song_ids_set <=> local.is_saved_vec[1])
        /\ (io_event.kind = "GetCurrentPlayback" /\ IsSome(local.result)
                /\ ~HasTrackId(Unwrap(local.result)))
            => app'.liked_song_ids_set = app.liked_song_ids_set
        /\ app'.current_playback_context # app.current_playback_context
            => netPc = "playback_ok" /\ netHolds ]_vars

C16_Witness ==
    /\ app.current_playback_context = Some(None)
    /\ netPc = "playback_ok"
    /\ netHolds
    /\ local.ids = <<1>>
    /\ local.is_saved_vec = <<TRUE>>
    /\ 1 \in app.liked_song_ids_set

\* C17: the navigation stack always holds an entry; on a stack of one entry the
\* pop removes nothing and reports underflow, and the back key passes that
\* underflow on to the render loop, which ends on it.
C17_StackNeverEmpty ==
    /\ Len(app.navigation_stack) >= 1
    /\ Len(app.navigation_stack) = 1
        => /\ pop_navigation_stack(app) = <<None, app>>
           /\ back_key(app) = <<None, app>>

C17_Witness ==
    /\ renderPc = "done"
    /\ Len(app.navigation_stack) = 1
    /\ app.devices # None
    /\ handled >= 2

\* C18: a back key that removes entries removes two of them when the route on
\* top is Search, and one for any other route.
C18_SkipOne ==
    [][ (renderPc = "event" /\ Len(app'.navigation_stack) < Len(app.navigation_stack))
        => Len(app.navigation_stack) - Len(app'.navigation_stack) =
            (IF get_current_route(app).id = "Search" THEN 2 ELSE 1) ]_vars

\* s is a prefix of t
IsPrefix(s, t) == Len(s) <= Len(t) /\ SubSeq(t, 1, Len(s)) = s

\* C19: no step of the dispatcher removes or reorders entries of the navigation
\* stack: the stack before the step is a prefix of the stack after it.
C19_DispatcherOnlyPushes ==
    [][ netVars' # netVars
        => IsPrefix(app.navigation_stack, app'.navigation_stack) ]_vars

C19_Witness ==
    /\ netPc = "recv"
    /\ handled >= 2
    /\ Len(app.navigation_stack) >= 3
    /\ get_current_route(app).id = "TrackTable"
    /\ app.navigation_stack[2].id = "SelectedDevice"

\* C20: the write of a successful track-page command (playlist, curated, or the
\* saved library asked to navigate) leaves the track-table route on top, and
\* appends its entry exactly when the route on top was another one.
C20_TrackTablePushedOnce ==
    [][ (netPc \in {"page_ok", "saved_ok"} /\ netPc' = "recv"
            /\ (netPc = "saved_ok" => io_event.navigate))
        => /\ get_current_route(app').id = "TrackTable"
           /\ app'.navigation_stack =
                (IF get_current_route(app).id = "TrackTable"
                 THEN app.navigation_stack
                 ELSE Append(app.navigation_stack,
                             [id |-> "TrackTable", active_block |-> "TrackTable"])) ]_vars

\* C21: a render loop that asks for the lock gets it, and a render loop that owns
\* the lock (and may still send a command) ends its iteration, whether or not
\* the remote calls of the dispatcher return.
C21_RenderNeverStarved ==
    /\ (renderPc = "lock") ~> renderHolds
    /\ (renderHolds /\ enqueued < MaxCmds) ~> ~renderHolds

C21_Witness ==
    /\ renderPc = "event"
    /\ renderHolds
    /\ ~is_first_render
    /\ netPc = "contains_wait"
    /\ handled >= 1

\* C22: the render loop ends only in a step of its own event handling that
\* either leaves the App as it is (Ctrl-c, or the back key on the root entry
\* alone) or is the back key outside the input block whose second pop, after a
\* Search entry, found the root entry alone; no step of the dispatcher ends it,
\* and no key handled while the input block is active removes a stack entry.
C22_LoopEnds ==
    [][ /\ (renderPc # "done" /\ renderPc' = "done")
            => /\ renderPc = "event"
               /\ renderHolds
               /\ netVars' = netVars
               /\ \/ app' = app
                  \/ /\ get_current_route(app).active_block # "Input"
                     /\ get_current_route(app).id = "Search"
                     /\ Len(app.navigation_stack) = 2
                     /\ app' = [app EXCEPT !.navigation_stack = <<app.navigation_stack[1]>>]
        /\ (renderPc = "event" /\ get_current_route(app).active_block = "Input")
            => IsPrefix(app.navigation_stack, app'.navigation_stack) ]_vars

C22_Witness ==
    /\ renderPc = "done"
    /\ get_current_route(app).active_block = "Input"
    /\ handled >= 1

StartupKinds ==
    <<"GetPlaylists", "GetCurrentPlayback">>
        \o (IF device_id = None THEN <<"GetDevices">> ELSE <<>>)

\* C24: the startup commands are sent once, by the step that ends the first
\* iteration: they are the last commands of the channel, in the order
\* GetPlaylists, GetCurrentPlayback and, without a cached device id, GetDevices,
\* behind everything sent before (until then only a RefreshAuthentication);
\* afterwards a step sends one command at most, and the dispatcher takes the
\* commands from the front of the channel.
C24_StartupOnce ==
    [][ /\ (is_first_render /\ ~is_first_render')
            => LET m == Len(StartupKinds) IN
               /\ renderPc = "event" /\ renderPc' = "lock"
               /\ Len(queue') - Len(queue) \in {m, m + 1}
               /\ SubSeq(queue', 1, Len(queue)) = queue
               /\ \A j \in 1..m :
                    /\ queue'[Len(queue') - m + j].kind = StartupKinds[j]
                    /\ queue'[Len(queue') - m + j].n = enqueued' - m + j
        /\ is_first_render'
            => /\ is_first_render
               /\ enqueued' <= 1
               /\ \A k \in 1..Len(queue') : queue'[k].kind = "RefreshAuthentication"
        /\ ~is_first_render => Len(queue') <= Len(queue) + 1
        /\ (netPc = "recv" /\ netPc' # "recv")
            => io_event' = Head(queue) /\ queue' = Tail(queue) ]_vars

C24_Witness ==
    /\ netPc = "devices_wait"
    /\ io_event.n = 4
    /\ handled = 3
    /\ stdout = 1
    /\ app.current_playback_context # None

====
